---------------------------- MODULE Spec2Model ----------------------------
(***************************************************************************)
(* A model of region_detection_core::RegionDetector                        *)
(* (src/region_detection_core/src/region_detector.cpp).                    *)
(*                                                                         *)
(* Points are integer triples <<x, y, z>>; a sample whose coordinates are  *)
(* not finite is the value NaN.  A Euclidean norm is never computed: norms *)
(* are compared with the (non-negative integer) thresholds of the          *)
(* configuration through their squares, which decides the same            *)
(* comparisons the code decides on doubles.                                *)
(***************************************************************************)
EXTENDS Integers, Sequences, FiniteSets, TLC

VARIABLES
    cfg,                    \* cfg_ : the RegionDetectionConfig set by configure()
    pc,                     \* where the current call of compute() stands
    regions,                \* the caller's RegionResults, passed by reference
    regions0,               \* history: regions as it was when compute() was called
    closed_contours_points, \* compute(): curves tagged closed, all bundles so far
    open_contours_points,   \* compute(): curves tagged open, all bundles so far
    normals,                \* compute(): accumulated PointNormal cloud
    stage,                  \* history: the Result of each helper stage of this call
    ret,                    \* the value compute() returned ("none" before it returns)
    simplified,             \* history: the curves simplifyByMinimunLength returned
    stale,                  \* what front() and back() of an empty cloud read
    fin,                    \* argument record of a helper called on its own
    fout                    \* what that helper returned; while it loops, its locals

vars == <<cfg, pc, regions, regions0, closed_contours_points, open_contours_points,
          normals, stage, ret, simplified, stale, fin, fout>>

---------------------------------------------------------------------------
(* Sequences                                                               *)

RECURSIVE Reverse(_)
Reverse(s) == IF s = <<>> THEN <<>> ELSE Append(Reverse(Tail(s)), Head(s))

RECURSIVE SelectIdx(_, _, _)
\* the subsequence of s at the indices i (from index k on) with keep[i]
SelectIdx(s, keep, k) ==
    IF k > Len(s) THEN <<>>
    ELSE IF keep[k] THEN <<s[k]>> \o SelectIdx(s, keep, k + 1)
    ELSE SelectIdx(s, keep, k + 1)

\* the elements of s from position a to position b, as far as s has them
Slice(s, a, b) == SelectIdx(s, [i \in 1..Len(s) |-> a <= i /\ i <= b], 1)

RECURSIVE Flatten(_)
Flatten(ss) == IF ss = <<>> THEN <<>> ELSE Head(ss) \o Flatten(Tail(ss))

Range(s) == {s[i] : i \in 1..Len(s)}

\* all sequences over S of length lo..hi
SeqsOf(S, lo, hi) == UNION {[1..n -> S] : n \in lo..hi}

---------------------------------------------------------------------------
(* Geometry                                                                *)

\* a sample with non-finite coordinates
NaN == <<-9, -9, -9>>

Sub(p, q) == <<p[1] - q[1], p[2] - q[2], p[3] - q[3]>>
Add(p, q) == <<p[1] + q[1], p[2] + q[2], p[3] + q[3]>>
Neg(v) == <<-v[1], -v[2], -v[3]>>
Dot(u, v) == u[1] * v[1] + u[2] * v[2] + u[3] * v[3]
Cross(u, v) == <<u[2] * v[3] - u[3] * v[2],
                 u[3] * v[1] - u[1] * v[3],
                 u[1] * v[2] - u[2] * v[1]>>
Zero3 == <<0, 0, 0>>

\* squared norm of (p - q); -1 stands for a NaN norm (p or q not finite)
Norm2(p, q) == IF p = NaN \/ q = NaN THEN -1 ELSE Dot(Sub(p, q), Sub(p, q))

\* the comparison had it been norm <= d
NormLessOrEqual(n2, d) == n2 >= 0 /\ d > 0 /\ n2 <= d * d

\* diff.norm() < d, diff.norm() > d on doubles: every comparison with NaN is false
NormLess(n2, d) == n2 >= 0 /\ d > 0 /\ n2 < d * d
NormGreater(n2, d) == n2 >= 0 /\ (d < 0 \/ n2 > d * d)


---------------------------------------------------------------------------
(* Results of the helper stages: RegionDetector::Result (success, msg)     *)

Result(ok, msg) == [ok |-> ok, msg |-> msg]

\* the value of fout, and of ret, before the call returns
NoOutput == [tag |-> "none"]

---------------------------------------------------------------------------
(* extractContoursFromCloud                                                *)
(* A cloud is [width, height, pts], pts a function of the pixel <<x, y>>.  *)

\* pcl::PointCloud::isOrganized()
IsOrganized(input) == input.height > 1

\* The comparison "idx.x >= input->width" is int against uint32_t: the int is
\* converted to unsigned, i.e. taken modulo 2^w.  TLC's integers are 32 bits
\* wide, so the model keeps the conversion with w = 30; every width, height
\* and index of the model is far below 2^30.
ToUnsigned(i) == i % (2 ^ 30)

\* the signed comparison the code does not make
IndexExceedsSigned(idx, input) == idx[1] >= input.width \/ idx[2] >= input.height

\* line 819
IndexExceeds(idx, input) ==
    ToUnsigned(idx[1]) >= input.width \/ ToUnsigned(idx[2]) >= input.height

\* input->at(idx.x, idx.y)
CloudAt(input, idx) == IF idx \in DOMAIN input.pts THEN input.pts[idx] ELSE NaN

RECURSIVE ExtractPoints(_, _, _)
\* lines 816-827: the points of one contour, from its k-th index on;
\* reads are the indices the cloud was read at
ExtractPoints(indices, input, k) ==
    IF k > Len(indices) THEN [ok |-> TRUE, pts |-> <<>>, reads |-> <<>>]
    ELSE IF IndexExceeds(indices[k], input)
    THEN [ok |-> FALSE, pts |-> <<>>, reads |-> <<>>]
    ELSE LET r == ExtractPoints(indices, input, k + 1)
         IN  [ok |-> r.ok,
              pts |-> <<CloudAt(input, indices[k])>> \o r.pts,
              reads |-> <<indices[k]>> \o r.reads]

\* line 811
EmptyIndicesMsg == "Empty indices vector was passed"

\* line 831
ExtractEndResult(contours_points) == Result(contours_points # <<>>, "")

RECURSIVE ExtractLoop(_, _, _, _, _)
\* lines 807-831, from the k-th contour on
ExtractLoop(contour_indices, input, k, contours_points, reads) ==
    IF k > Len(contour_indices)
    THEN [res |-> ExtractEndResult(contours_points),
          contours_points |-> contours_points, reads |-> reads]
    ELSE IF contour_indices[k] = <<>>
    THEN [res |-> Result(FALSE, EmptyIndicesMsg),
          contours_points |-> contours_points, reads |-> reads]
    ELSE LET r == ExtractPoints(contour_indices[k], input, 1)
         IN  IF ~r.ok
             THEN [res |-> Result(FALSE, "2D indices exceed point cloud size"),
                   contours_points |-> contours_points, reads |-> reads \o r.reads]
             ELSE ExtractLoop(contour_indices, input, k + 1,
                              Append(contours_points, r.pts), reads \o r.reads)

\* lines 794-832; contours_points is the caller's (empty) output vector
ExtractContoursFromCloud(contour_indices, input) ==
    IF ~IsOrganized(input)
    THEN [res |-> Result(FALSE, "Point Cloud not organized"),
          contours_points |-> <<>>, reads |-> <<>>]
    ELSE ExtractLoop(contour_indices, input, 1, <<>>, <<>>)


---------------------------------------------------------------------------
(* Configuration, results, and the state outside a call of compute()       *)

\* RegionDetectionConfig: the fields the model reads
\*   dilation_*                       opencv_cfg.dilation
\*   closed_curve_max_dist_2d         pcl_2d_cfg.closed_curve_max_dist
\*   max_merge_dist .. stat_removal   pcl_cfg
Config(dil_enable, dil_size, dil_elem, closed2d, merge, closed3d, min_dist, min_points, stat) ==
    [dilation_enable |-> dil_enable, dilation_kernel_size |-> dil_size,
     dilation_elem |-> dil_elem, closed_curve_max_dist_2d |-> closed2d,
     max_merge_dist |-> merge, closed_curve_max_dist |-> closed3d,
     simplification_min_dist |-> min_dist, min_num_points |-> min_points,
     stat_removal_enable |-> stat]

\* the configuration of the helper-only specifications that do not read cfg_
PlainCfg == Config(FALSE, 1, 0, 2, 1, 1, 0, 2, FALSE)

\* RegionResults: images (one per bundle processed), pose sequences
EmptyRegions ==
    [images |-> <<>>, open_regions_poses |-> <<>>, closed_regions_poses |-> <<>>]

\* front() and back() were never taken of an empty cloud
NoStale == [front |-> NaN, back |-> NaN]

\* no call of compute() in progress: the state of the helper-only specifications
NoCompute ==
    /\ pc = "helper"
    /\ regions = EmptyRegions
    /\ regions0 = EmptyRegions
    /\ closed_contours_points = <<>>
    /\ open_contours_points = <<>>
    /\ normals = {}
    /\ stage = <<>>
    /\ ret = "none"
    /\ simplified = <<>>
    /\ stale = NoStale

computeVars == <<pc, regions, regions0, closed_contours_points,
                 open_contours_points, normals, stage, ret, simplified, stale>>

---------------------------------------------------------------------------
(* Specification SpecExtract: extractContoursFromCloud on its own          *)

\* most pixel indices in one contour
MaxIdx == 2

\* pixel indices tried against a 2 x 2 cloud: inside, x = width, y = height,
\* and negative coordinates
ExPixels == {<<0, 0>>, <<1, 1>>, <<2, 0>>, <<0, 2>>, <<-1, 0>>, <<1, -1>>}

\* a plane z = 0 sampled on a w x h grid
PlaneCloud(w, h) ==
    [width |-> w, height |-> h,
     pts |-> [idx \in (0..(w - 1)) \X (0..(h - 1)) |-> <<idx[1], idx[2], 0>>]]

\* an organized 2 x 2 cloud and an unorganized one (height 1)
ExClouds == {PlaneCloud(2, 2), PlaneCloud(4, 1)}

\* lists of zero, one or two contours
ExContourLists == SeqsOf(SeqsOf(ExPixels, 0, MaxIdx), 0, 2)

InitExtract ==
    /\ NoCompute
    /\ cfg = PlainCfg
    /\ fin \in {[fn |-> "extractContoursFromCloud", contour_indices |-> c, input |-> i] :
                  c \in ExContourLists, i \in ExClouds}
    /\ fout = NoOutput

CallExtract ==
    /\ fin.fn = "extractContoursFromCloud"
    /\ fout = NoOutput
    /\ LET r == ExtractContoursFromCloud(fin.contour_indices, fin.input)
       IN  fout' = [tag |-> "extract", res |-> r.res,
                    contours_points |-> r.contours_points, reads |-> r.reads]
    /\ UNCHANGED <<cfg, fin, computeVars>>

NextExtract == CallExtract

SpecExtract == InitExtract /\ [][NextExtract]_vars

\* the indices of the contours in the order the code visits them
ExVisited == Flatten(fin.contour_indices)

InRange(idx, input) ==
    0 <= idx[1] /\ idx[1] < input.width /\ 0 <= idx[2] /\ idx[2] < input.height

\* the number of leading elements of s that are in range
RECURSIVE LeadingInRange(_, _)
LeadingInRange(s, input) ==
    IF s = <<>> \/ ~InRange(Head(s), input) THEN 0
    ELSE 1 + LeadingInRange(Tail(s), input)

\* C5: every index the cloud is read at is inside the cloud; and when the
\* cloud is organized, no contour is empty and some index is outside the
\* cloud (too large or negative), the call fails with "2D indices exceed
\* point cloud size" having read exactly the indices before the first such
\* index, so never at that index.
C5_IndicesInRange ==
    fout.tag = "extract" =>
        /\ \A i \in 1..Len(fout.reads) : InRange(fout.reads[i], fin.input)
        /\ ( /\ IsOrganized(fin.input)
             /\ \A k \in 1..Len(fin.contour_indices) : fin.contour_indices[k] # <<>>
             /\ \E i \in 1..Len(ExVisited) : ~InRange(ExVisited[i], fin.input) )
           => /\ ~fout.res.ok
              /\ fout.res.msg = "2D indices exceed point cloud size"
              /\ fout.reads = SubSeq(ExVisited, 1, LeadingInRange(ExVisited, fin.input))

\* C5 witness: a call that read the cloud at a valid index and then failed on
\* an index with a negative coordinate
C5_Witness ==
    /\ fout.tag = "extract"
    /\ fout.res.msg = "2D indices exceed point cloud size"
    /\ Len(fout.reads) = 1
    /\ ExVisited[2][1] < 0

\* C6: with an organized cloud and an empty list of contours the call fails
\* and the message of the failure is "Empty indices vector".
C6_EmptyListMessage ==
    (fout.tag = "extract" /\ IsOrganized(fin.input) /\ fin.contour_indices = <<>>)
        => (~fout.res.ok /\ fout.res.msg = "Empty indices vector")


---------------------------------------------------------------------------
(* mergeCurves                                                             *)

\* c.front(), c.back(): of an empty cloud they read memory the cloud does not
\* own (undefined behaviour); the value read is the state variable stale
FrontOf(c) == IF c = <<>> THEN stale.front ELSE c[1]
BackOf(c) == IF c = <<>> THEN stale.back ELSE c[Len(c)]

\* lines 947-961
EndPointsDistances(c1, c2) ==
    <<Norm2(FrontOf(c1), FrontOf(c2)), Norm2(FrontOf(c1), BackOf(c2)),
      Norm2(BackOf(c1), FrontOf(c2)), Norm2(BackOf(c1), BackOf(c2))>>

\* a < b on doubles, -1 standing for NaN
DoubleLess(a, b) == a >= 0 /\ b >= 0 /\ a < b

RECURSIVE MinElementFrom(_, _, _)
\* std::min_element: the position of the first smallest element
MinElementFrom(d, smallest, i) ==
    IF i > Len(d) THEN smallest
    ELSE MinElementFrom(d, IF DoubleLess(d[i], d[smallest]) THEN i ELSE smallest, i + 1)

\* line 963
MinElement(d) == MinElementFrom(d, 1, 2)

\* the guard of line 964 had it been ">="
TooFarToMergeOrEqual(n2) == ~NormLess(n2, cfg.max_merge_dist)

\* line 964: *min_pos > cfg_->pcl_cfg.max_merge_dist
TooFarToMerge(n2) == NormGreater(n2, cfg.max_merge_dist)

\* lines 970-990 had the std::reverse calls of lines 974 and 987 been left out
ConcatenateUnreversed(merge_method, c1, c2) ==
    IF merge_method \in {1, 2} THEN c2 \o c1 ELSE c1 \o c2

\* lines 970-990
Concatenate(merge_method, c1, c2) ==
    CASE merge_method = 1 -> Reverse(c2) \o c1
      [] merge_method = 2 -> c2 \o c1
      [] merge_method = 3 -> c1 \o c2
      [] merge_method = 4 -> c1 \o Reverse(c2)

\* lines 944-995
MergeCurves(c1, c2) ==
    LET d == EndPointsDistances(c1, c2)
        min_pos == MinElement(d)
    IN  IF TooFarToMerge(d[min_pos])
        THEN [ok |-> FALSE, merged |-> <<>>, method |-> 0]
        ELSE [ok |-> TRUE, merged |-> Concatenate(min_pos, c1, c2), method |-> min_pos]

---------------------------------------------------------------------------
(* Specification SpecMerge: mergeCurves on its own                         *)

\* most points in a curve handed to a helper on its own
MaxCurveLen == 2

\* curve vertices: four points of a plane
MergePts == {<<0, 0, 0>>, <<1, 0, 0>>, <<2, 0, 0>>, <<0, 1, 0>>}

\* pcl_cfg.max_merge_dist tried
MergeDists == {0, 1, 2}

InitMerge ==
    /\ NoCompute
    /\ cfg \in {[PlainCfg EXCEPT !.max_merge_dist = m] : m \in MergeDists}
    /\ fin \in {[fn |-> "mergeCurves", c1 |-> c1, c2 |-> c2] :
                  c1 \in SeqsOf(MergePts, 1, MaxCurveLen),
                  c2 \in SeqsOf(MergePts, 1, MaxCurveLen)}
    /\ fout = NoOutput

CallMerge ==
    /\ fin.fn = "mergeCurves"
    /\ fout = NoOutput
    /\ LET r == MergeCurves(fin.c1, fin.c2)
       IN  fout' = [tag |-> "merge", ok |-> r.ok, merged |-> r.merged,
                    method |-> r.method]
    /\ UNCHANGED <<cfg, fin, computeVars>>

NextMerge == CallMerge

SpecMerge == InitMerge /\ [][NextMerge]_vars

\* the four squared endpoint-to-endpoint distances of the two curves
EndD2 ==
    {Norm2(a, b) : a \in {fin.c1[1], fin.c1[Len(fin.c1)]},
                   b \in {fin.c2[1], fin.c2[Len(fin.c2)]}}

\* the smallest of them
MinEndD2 == CHOOSE m \in EndD2 : \A n \in EndD2 : m <= n

\* C7 as stated: the curves are merged only when the smallest endpoint
\* distance is strictly less than max_merge_dist; at equality they are not.
C7_StrictMerge ==
    (fout.tag = "merge" /\ fout.ok)
        => MinEndD2 < cfg.max_merge_dist * cfg.max_merge_dist

\* C7 amended: the curves are merged exactly when the smallest endpoint
\* distance is less than or equal to max_merge_dist; at equality they are merged.
C7_MergeIffWithin ==
    fout.tag = "merge"
        => (fout.ok <=> MinEndD2 <= cfg.max_merge_dist * cfg.max_merge_dist)

\* C7 witness: two curves whose closest endpoints are exactly max_merge_dist
\* (> 0) apart were merged
C7_Witness ==
    /\ fout.tag = "merge"
    /\ fout.ok
    /\ cfg.max_merge_dist > 0
    /\ MinEndD2 = cfg.max_merge_dist * cfg.max_merge_dist


---------------------------------------------------------------------------
(* computePoses                                                            *)
(* A PointNormal cloud is a set of [p, n]: position and normal.  A vector  *)
(* v.normalized() is modelled by the shortest integer vector of the same   *)
(* direction, so that two normalized vectors are equal exactly when they   *)
(* have the same direction; the zero vector normalizes to itself.          *)

Abs(i) == IF i < 0 THEN -i ELSE i

RECURSIVE Gcd(_, _)
Gcd(a, b) == IF b = 0 THEN a ELSE Gcd(b, a % b)

\* Eigen: v.normalized()
Normalized(v) ==
    IF v = Zero3 THEN v
    ELSE LET g == Gcd(Gcd(Abs(v[1]), Abs(v[2])), Abs(v[3]))
         IN  <<v[1] \div g, v[2] \div g, v[3] \div g>>

\* dir * v for dir = 1.0 or -1.0
Scaled(dir, v) == IF dir < 0 THEN Neg(v) ELSE v

\* the axes without line 1118
PoseAxesNormalKept(p1, p2, normal, dir) ==
    LET x_dir == Scaled(dir, Normalized(Sub(p2, p1)))
        z_dir == Normalized(normal)
        y_dir == Normalized(Cross(z_dir, x_dir))
    IN  [x |-> x_dir, y |-> y_dir, z |-> z_dir]

\* lines 1115-1118
PoseAxes(p1, p2, normal, dir) ==
    LET x_dir == Scaled(dir, Normalized(Sub(p2, p1)))
        z_dir0 == Normalized(normal)
        y_dir == Normalized(Cross(z_dir0, x_dir))
        z_dir == Normalized(Cross(x_dir, y_dir))
    IN  [x |-> x_dir, y |-> y_dir, z |-> z_dir]

\* lines 1097-1123: the pose at vertex i of a curve; normal is the normal
\* looked up for vertex i, tangent the vector the x axis is taken from
PoseAt(curve, curve_normals, i) ==
    LET last == i + 1 > Len(curve)
        idx_next == IF last THEN i - 1 ELSE i + 1
        dir == IF last THEN -1 ELSE 1
        axes == PoseAxes(curve[i], curve[idx_next], curve_normals[i], dir)
    IN  [t |-> curve[i], x |-> axes.x, y |-> axes.y, z |-> axes.z,
         normal |-> curve_normals[i],
         tangent |-> Scaled(dir, Sub(curve[idx_next], curve[i]))]

\* pcl::KdTreeFLANN::nearestKSearch with k = 1: the entries of the cloud
\* nearest to p (it returns one of them; none when the cloud is empty)
NearestSet(cloud, p) ==
    {e \in cloud : \A e2 \in cloud : Norm2(e.p, p) <= Norm2(e2.p, p)}

\* the answers the k-d tree may give for the points pts (it is not asked
\* when the cloud is empty)
RECURSIVE KdTreeAnswers(_, _)
KdTreeAnswers(cloud, pts) ==
    IF cloud = {} \/ pts = {} THEN {<<>>}
    ELSE LET p == CHOOSE q \in pts : TRUE
         IN  {(p :> e) @@ f : e \in NearestSet(cloud, p),
                              f \in KdTreeAnswers(cloud, pts \ {p})}

RECURSIVE ComputePosesFrom(_, _, _, _, _)
\* lines 1069-1127, from the k-th curve on
ComputePosesFrom(source_normal_cloud, curves_points, curves_poses, nearest, k) ==
    IF k > Len(curves_points) THEN [res |-> Result(TRUE, ""), curves_poses |-> curves_poses]
    ELSE LET curve == curves_points[k]
         IN  IF curve # <<>> /\ source_normal_cloud = {}
             THEN [res |-> Result(FALSE, "Kdtree found no nearby points during pose computation"),
                   curves_poses |-> curves_poses]
             ELSE LET curve_normals == [i \in 1..Len(curve) |-> nearest[curve[i]].n]
                      curve_poses == [i \in 1..Len(curve) |-> PoseAt(curve, curve_normals, i)]
                  IN  ComputePosesFrom(source_normal_cloud, curves_points,
                                       Append(curves_poses, curve_poses), nearest, k + 1)

\* computePoses had it cleared curves_poses before filling it
ComputePosesOverwriting(source_normal_cloud, curves_points, curves_poses, nearest) ==
    ComputePosesFrom(source_normal_cloud, curves_points, <<>>, nearest, 1)

\* lines 1051-1128; nearest is the answer of the k-d tree for every vertex
ComputePoses(source_normal_cloud, curves_points, curves_poses, nearest) ==
    ComputePosesFrom(source_normal_cloud, curves_points, curves_poses, nearest, 1)

\* the vertices of a list of curves
VerticesOf(curves) == UNION {Range(curves[k]) : k \in 1..Len(curves)}

---------------------------------------------------------------------------
(* Specification SpecPoses: computePoses on its own                        *)

\* curve vertices: three points, not on one line
PosePts == {<<0, 0, 0>>, <<1, 0, 0>>, <<0, 1, 0>>}

\* surface normals: perpendicular, oblique and parallel to the x direction
PoseNormals == {<<0, 0, 1>>, <<1, 0, 1>>, <<1, 0, 0>>, <<0, -1, -1>>}

\* a normal for every point of the source cloud
PoseClouds == {{[p |-> p, n |-> f[p]] : p \in PosePts} : f \in [PosePts -> PoseNormals]}

InitPoses ==
    /\ NoCompute
    /\ cfg = PlainCfg
    /\ fin \in {[fn |-> "computePoses", source_normal_cloud |-> c, curve |-> s] :
                  c \in PoseClouds, s \in SeqsOf(PosePts, 2, MaxCurveLen + 1)}
    /\ fout = NoOutput

CallPoses ==
    /\ fin.fn = "computePoses"
    /\ fout = NoOutput
    /\ \E nearest \in KdTreeAnswers(fin.source_normal_cloud, Range(fin.curve)) :
         LET r == ComputePoses(fin.source_normal_cloud, <<fin.curve>>, <<>>, nearest)
         IN  fout' = [tag |-> "poses", res |-> r.res, curves_poses |-> r.curves_poses]
    /\ UNCHANGED <<cfg, fin, computeVars>>

NextPoses == CallPoses

SpecPoses == InitPoses /\ [][NextPoses]_vars

\* a rotation whose columns are non-zero, mutually orthogonal and right-handed
ProperFrame(pose) ==
    /\ pose.x # Zero3 /\ pose.y # Zero3 /\ pose.z # Zero3
    /\ Dot(pose.x, pose.y) = 0 /\ Dot(pose.y, pose.z) = 0 /\ Dot(pose.x, pose.z) = 0
    /\ Dot(Cross(pose.x, pose.y), pose.z) > 0

\* the poses of a list of pose sequences
PosesOf(curves_poses) == UNION {Range(curves_poses[k]) : k \in 1..Len(curves_poses)}

\* u and v are non-zero and point the same way
SameDirection(u, v) == Cross(u, v) = Zero3 /\ Dot(u, v) > 0

\* the part of the normal perpendicular to the tangent, scaled by |tangent|^2
NormalAcrossTangent(pose) ==
    LET t == pose.tangent
        n == pose.normal
    IN  <<Dot(t, t) * n[1] - Dot(n, t) * t[1],
          Dot(t, t) * n[2] - Dot(n, t) * t[2],
          Dot(t, t) * n[3] - Dot(n, t) * t[3]>>

\* C10 as stated: the z axis of every pose has the direction of the surface
\* normal looked up for its vertex, whatever the normal and the tangent.
C10_ZIsNormal ==
    fout.tag = "poses" =>
        \A pose \in PosesOf(fout.curves_poses) : SameDirection(pose.z, pose.normal)

\* C10 amended: the z axis of every pose is the direction of the part of the
\* surface normal that is perpendicular to the tangent (the zero vector when
\* there is no such part); it has the direction of the normal exactly when the
\* tangent is non-zero and perpendicular to the normal.
C10_ZIsNormalAcrossTangent ==
    fout.tag = "poses" =>
        \A pose \in PosesOf(fout.curves_poses) :
            /\ pose.z = Normalized(NormalAcrossTangent(pose))
            /\ SameDirection(pose.z, pose.normal)
                   <=> (pose.tangent # Zero3 /\ Dot(pose.normal, pose.tangent) = 0)

\* C10 witness: a pose whose normal is oblique to its tangent, with a z axis
\* that is perpendicular to the tangent and not along the normal
C10_Witness ==
    /\ fout.tag = "poses"
    /\ \E pose \in PosesOf(fout.curves_poses) :
          /\ Dot(pose.normal, pose.tangent) # 0
          /\ pose.z # Zero3
          /\ Dot(pose.z, pose.tangent) = 0
          /\ ~SameDirection(pose.z, pose.normal)

\* C9: the rotation of every pose has three non-zero, mutually orthogonal
\* axes forming a right-handed frame, also when consecutive vertices
\* coincide and when the normal is parallel to the tangent.
C9_ProperFrame ==
    fout.tag = "poses" =>
        \A pose \in PosesOf(fout.curves_poses) : ProperFrame(pose)


---------------------------------------------------------------------------
(* The stages of compute() on one bundle                                   *)

\* DILATION_TYPES, line 57
DilationTypes == {0, 1, 2}

\* lines 430-527: the Result of compute2dContours and the image it leaves in
\* output; the contours themselves come from cv::findContours
Compute2dContours ==
    IF cfg.dilation_enable /\ cfg.dilation_kernel_size <= 0
    THEN [res |-> Result(FALSE, "invalid dilation size"), output |-> "grayscale"]
    ELSE IF cfg.dilation_enable /\ cfg.dilation_elem \notin DilationTypes
    THEN [res |-> Result(FALSE, "invalid dilation element"), output |-> "grayscale"]
    ELSE [res |-> Result(TRUE, ""), output |-> "drawing"]

\* convert2DContourToCloud, lines 96-108: a pixel as a point with z = 0
PixelToPoint(px) == <<px[1], px[2], 0>>

\* convertCloudTo2DContour, lines 110-121: float coordinates to int; the
\* coordinates of the model are whole numbers, which the conversion keeps
PointToPixel(p) == <<p[1], p[2]>>

RECURSIVE FindClosedCurvesFrom(_, _, _, _, _)
\* lines 314-331, from the k-th curve on
FindClosedCurvesFrom(sequenced_curves_vec, max_dist, k, closed_curves_vec, open_curves_vec) ==
    IF k > Len(sequenced_curves_vec)
    THEN [closed |-> closed_curves_vec, open |-> open_curves_vec]
    ELSE LET curve_points == sequenced_curves_vec[k]
         IN  IF NormLess(Norm2(FrontOf(curve_points), BackOf(curve_points)), max_dist)
             THEN FindClosedCurvesFrom(sequenced_curves_vec, max_dist, k + 1,
                      Append(closed_curves_vec, Append(curve_points, FrontOf(curve_points))),
                      open_curves_vec)
             ELSE FindClosedCurvesFrom(sequenced_curves_vec, max_dist, k + 1,
                      closed_curves_vec, Append(open_curves_vec, curve_points))

\* lines 309-332
FindClosedCurves(sequenced_curves_vec, max_dist) ==
    FindClosedCurvesFrom(sequenced_curves_vec, max_dist, 1, <<>>, <<>>)

\* pcl::transformPointCloud, line 665, for a transform that is a translation
TransformPointCloud(input, t) ==
    [input EXCEPT !.pts = [idx \in DOMAIN input.pts |->
                              IF input.pts[idx] = NaN THEN NaN ELSE Add(input.pts[idx], t)]]

\* pcl::removeNaNFromPointCloud, line 682
RemoveNaN(contour) == SelectIdx(contour, [i \in 1..Len(contour) |-> contour[i] # NaN], 1)

\* pcl::StatisticalOutlierRemoval, lines 685-693: the points found to be
\* outliers are dropped, in every place they occur
RemoveOutliers(contour, outliers) ==
    IF cfg.stat_removal_enable
    THEN SelectIdx(contour, [i \in 1..Len(contour) |-> contour[i] \notin outliers], 1)
    ELSE contour

\* lines 676-694
CleanContours(contours_points, outliers) ==
    [k \in 1..Len(contours_points) |-> RemoveOutliers(RemoveNaN(contours_points[k]), outliers)]

\* the finite samples of a cloud: what its down-sampled copy holds
SourcePoints(input) == {input.pts[idx] : idx \in DOMAIN input.pts} \ {NaN}

\* lines 997-1049: every curve vertex with the normal of the source point
\* nearest to it; normal_of gives the estimated normal of a source point
ComputeNormals(source_cloud, curves_points, normal_of) ==
    IF VerticesOf(curves_points) # {} /\ SourcePoints(source_cloud) = {}
    THEN [res |-> Result(FALSE, "Found no points near curve, can not get normal vector"),
          curves_normals |-> {}]
    ELSE [res |-> Result(TRUE, ""),
          curves_normals |-> {[p |-> v, n |-> normal_of] : v \in VerticesOf(curves_points)}]

\* the test of lines 548, 671 and 699 had it been left out
NeverReturns(res) == FALSE

\* lines 548, 671, 699: if(!res) return false
ReturnsOnFailure(res) == ~res.ok

\* lines 540-723: one pass of the loop over the bundles.  data is the bundle:
\*   segments   the pixel curves that split() returned for its image
\*   cloud      its organized cloud, transform the translation of its pose
\*   normal     the normal estimated for its (planar) cloud
\* outliers are the points the outlier filter rejects.
\* The image stages of lines 553-619 (interpolation, down-sampling, sequence,
\* split) are taken by their outcome, the segments.  The concave-hull
\* simplification of lines 626-640 is skipped, as the code skips it for closed
\* curves of fewer than pcl_2d_cfg.simplification_min_points points.
\* returned: false when the pass ends in "return false"
ProcessBundle(data, outliers) ==
    LET c2d == Compute2dContours
        images == Append(regions.images, c2d.output)
        fc == FindClosedCurves([k \in 1..Len(data.segments) |->
                                   [i \in 1..Len(data.segments[k]) |->
                                       PixelToPoint(data.segments[k][i])]],
                               cfg.closed_curve_max_dist_2d)
        indices_cloud_vec == fc.closed \o fc.open
        contours_indices == [k \in 1..Len(indices_cloud_vec) |->
                                [i \in 1..Len(indices_cloud_vec[k]) |->
                                    PointToPixel(indices_cloud_vec[k][i])]]
        input_cloud == TransformPointCloud(data.cloud, data.transform)
        ex == ExtractContoursFromCloud(contours_indices, input_cloud)
        contours_points == CleanContours(ex.contours_points, outliers)
        cn == ComputeNormals(input_cloud, contours_points, data.normal)
        nclosed == Len(fc.closed)
        done(stages) == [returned |-> TRUE, images |-> images, stages |-> stages,
                         closed |-> closed_contours_points,
                         open |-> open_contours_points, normals |-> normals]
    IN  IF ReturnsOnFailure(c2d.res)
        THEN done(<<[name |-> "compute2dContours", ok |-> c2d.res.ok]>>)
        ELSE IF ReturnsOnFailure(ex.res)
        THEN done(<<[name |-> "compute2dContours", ok |-> c2d.res.ok],
                    [name |-> "extractContoursFromCloud", ok |-> ex.res.ok]>>)
        ELSE IF ReturnsOnFailure(cn.res)
        THEN done(<<[name |-> "compute2dContours", ok |-> c2d.res.ok],
                    [name |-> "extractContoursFromCloud", ok |-> ex.res.ok],
                    [name |-> "computeNormals", ok |-> cn.res.ok]>>)
        ELSE [returned |-> FALSE, images |-> images,
              stages |-> <<[name |-> "compute2dContours", ok |-> c2d.res.ok],
                           [name |-> "extractContoursFromCloud", ok |-> ex.res.ok],
                           [name |-> "computeNormals", ok |-> cn.res.ok]>>,
              closed |-> closed_contours_points \o Slice(contours_points, 1, nclosed),
              open |-> open_contours_points
                         \o Slice(contours_points, nclosed + 1, Len(contours_points)),
              normals |-> normals \cup cn.curves_normals]


---------------------------------------------------------------------------
(* combineIntoClosedRegions, simplifyByMinimunLength and the end of compute *)

\* the test of line 876 had it never found the index
AlreadyMergedNever(merged_curves_indices, idx) == FALSE

\* lines 848 and 876: std::find(merged_curves_indices...) != end()
AlreadyMerged(merged_curves_indices, idx) == idx \in merged_curves_indices

\* lines 876-897: the body of the for loop for the merge candidate idx
MergeCandidate(contours, i, idx, st) ==
    LET m == MergeCurves(st.curve, contours[idx])
    IN  IF AlreadyMerged(st.merged, idx) THEN st
        ELSE IF m.ok
        THEN [curve |-> m.merged, merged |-> st.merged \cup {i, idx},
              merged_curves |-> TRUE, merges |-> st.merges + 1]
        ELSE st

RECURSIVE MergePass(_, _, _, _)
\* lines 869-901: the do-while around the for loop over the merge
\* candidates, from position k of the candidate list on.  st is [curve,
\* merged, merged_curves, merges]: curve_points, merged_curves_indices, the
\* flag of the do-while, and the number of merges made so far.
MergePass(contours, i, k, st) ==
    IF k > Len(contours) - 1
    THEN IF st.merged_curves
         THEN MergePass(contours, i, 1, [st EXCEPT !.merged_curves = FALSE])
         ELSE st
    ELSE MergePass(contours, i, k + 1,
                   MergeCandidate(contours, i, IF k < i THEN k ELSE k + 1, st))

\* lines 869-901
MergeLoop(contours, i, st) == MergePass(contours, i, 1, [st EXCEPT !.merged_curves = FALSE])

\* the test of line 905 had it been "<="
IsClosedCurveOrEqual(curve_points) ==
    ~NormGreater(Norm2(FrontOf(curve_points), BackOf(curve_points)), cfg.closed_curve_max_dist)

\* line 905
IsClosedCurve(curve_points) ==
    NormLess(Norm2(FrontOf(curve_points), BackOf(curve_points)), cfg.closed_curve_max_dist)

\* lines 903-919, had line 920 (merged_curves_indices.push_back(i)) been
\* left out
StoreCurveUnmarked(acc, i, st) ==
    IF IsClosedCurve(st.curve)
    THEN [closed |-> Append(acc.closed, Append(st.curve, FrontOf(st.curve))),
          open |-> acc.open, merged |-> st.merged, merges |-> st.merges]
    ELSE [closed |-> acc.closed, open |-> Append(acc.open, st.curve),
          merged |-> st.merged, merges |-> st.merges]

\* lines 903-920: the merged curve st.curve goes to the closed or the open
\* curves
StoreCurve(acc, i, st) ==
    IF IsClosedCurve(st.curve)
    THEN [closed |-> Append(acc.closed, Append(st.curve, FrontOf(st.curve))),
          open |-> acc.open,
          merged |-> st.merged \cup {i}, merges |-> st.merges]
    ELSE [closed |-> acc.closed,
          open |-> Append(acc.open, st.curve),
          merged |-> st.merged \cup {i}, merges |-> st.merges]

RECURSIVE CombineFrom(_, _, _)
\* lines 846-921, from curve i on.  acc is [closed, open, merged, merges]
CombineFrom(contours, i, acc) ==
    IF i > Len(contours) THEN acc
    ELSE IF i \in acc.merged THEN CombineFrom(contours, i + 1, acc)
    ELSE CombineFrom(contours, i + 1,
             StoreCurve(acc, i, MergeLoop(contours, i,
                                    [curve |-> contours[i], merged |-> acc.merged,
                                     merged_curves |-> FALSE, merges |-> acc.merges])))

\* lines 923-941: the outputs and the Result
CombineResult(contours_points, acc) ==
    [res |-> IF acc.closed = <<>> THEN Result(FALSE, "Found no closed curves")
             ELSE Result(TRUE, ""),
     closed_curves |-> acc.closed,
     open_curves |-> acc.open \o SelectIdx(contours_points,
                        [i \in 1..Len(contours_points) |-> i \notin acc.merged], 1),
     merges |-> acc.merges]

\* lines 834-942
CombineIntoClosedRegions(contours_points) ==
    CombineResult(contours_points,
                  CombineFrom(contours_points, 1,
                      [closed |-> <<>>, open |-> <<>>, merged |-> {}, merges |-> 0]))

RECURSIVE SimplifyFrom(_, _, _, _)
\* lines 777-786: the loop over the interior vertices, from vertex i on
SimplifyFrom(segment, min_length, i, simplified_segment) ==
    IF i > Len(segment) - 1 THEN simplified_segment
    ELSE IF NormGreater(Norm2(BackOf(simplified_segment), segment[i]), min_length)
    THEN SimplifyFrom(segment, min_length, i + 1, Append(simplified_segment, segment[i]))
    ELSE SimplifyFrom(segment, min_length, i + 1, simplified_segment)

\* lines 775-786, had line 787 (push_back(segment->back())) been left out
SimplifySegmentWithoutBack(segment, min_length) ==
    SimplifyFrom(segment, min_length, 2, <<FrontOf(segment)>>)

\* lines 775-787, for a segment that is not empty
SimplifySegment(segment, min_length) ==
    Append(SimplifyFrom(segment, min_length, 2, <<FrontOf(segment)>>), BackOf(segment))

\* lines 768-792.  For an empty segment, size() - 1 wraps around and at(1)
\* throws std::out_of_range: threw
SimplifyByMinimunLength(segments, min_length) ==
    [threw |-> \E k \in 1..Len(segments) : segments[k] = <<>>,
     segments |-> [k \in 1..Len(segments) |->
                      IF segments[k] = <<>> THEN <<>>
                      ELSE SimplifySegment(segments[k], min_length)]]

\* the filter of lines 741-749 had it kept curves of min_num_points - 1 points
KeepsCurveOffByOne(c) == ~(Len(c) < cfg.min_num_points - 1)

\* lines 743, 748: the curves the filter keeps
KeepsCurve(c) == ~(Len(c) < cfg.min_num_points)

\* lines 741-749
FilterCurves(curves) == SelectIdx(curves, [k \in 1..Len(curves) |-> KeepsCurve(curves[k])], 1)

\* line 765
ReturnValue(closed_regions_poses) == closed_regions_poses # <<>>

\* lines 737-749: comb is what combineIntoClosedRegions returned.
\* threw: simplifyByMinimunLength threw, compute() does not return
SimplifyAndFilter(comb, sc, so) ==
    [threw |-> sc.threw \/ so.threw,
     res |-> comb.res,
     simplified |-> sc.segments \o so.segments,
     closed |-> FilterCurves(sc.segments),
     open |-> FilterCurves(so.segments)]

\* lines 732-738
AppendAndSimplify(comb) ==
    SimplifyAndFilter(comb,
        SimplifyByMinimunLength(closed_contours_points \o comb.closed_curves,
                                cfg.simplification_min_dist),
        SimplifyByMinimunLength(comb.open_curves, cfg.simplification_min_dist))

\* lines 726-749: the curves handed to computePoses
AssembledCurves == AppendAndSimplify(CombineIntoClosedRegions(open_contours_points))

\* lines 755-765
ComputeReturn(a, po, pcl) ==
    [stages |-> <<[name |-> "combineIntoClosedRegions", ok |-> a.res.ok],
                  [name |-> "computePoses", ok |-> po.res.ok],
                  [name |-> "computePoses", ok |-> pcl.res.ok]>>,
     open_regions_poses |-> po.curves_poses,
     closed_regions_poses |-> pcl.curves_poses,
     ret |-> ReturnValue(pcl.curves_poses)]

\* lines 751-765.  a is AssembledCurves, nearest the answer of the k-d tree
\* of computePoses.
Assemble(a, nearest) ==
    ComputeReturn(a,
        ComputePoses(normals, a.open, regions.open_regions_poses, nearest),
        ComputePoses(normals, a.closed, regions.closed_regions_poses, nearest))

---------------------------------------------------------------------------
(* Specification Spec: one call of compute()                               *)

\* most curves, over all bundles, in one call of compute()
MaxCurves == 2

\* the organized clouds are one column of three samples of the plane z = 0
ColumnPixels == {<<0, 0>>, <<0, 1>>, <<0, 2>>}

\* nan: the pixels whose sample is NaN
ColumnCloud(nan) ==
    [width |-> 1, height |-> 3,
     pts |-> [idx \in ColumnPixels |-> IF idx \in nan THEN NaN ELSE <<idx[1], idx[2], 0>>]]

\* the same samples in a cloud that is not organized (height 1)
RowCloud ==
    [width |-> 3, height |-> 1,
     pts |-> [idx \in {<<0, 0>>, <<1, 0>>, <<2, 0>>} |-> <<idx[1], idx[2], 0>>]]

\* the NaN masks: no sample, the first one, every sample
NaNMasks == {{}, {<<0, 0>>}, ColumnPixels}

Clouds == {ColumnCloud(nan) : nan \in NaNMasks} \cup {RowCloud}

\* the pixel curves split() returns: runs of distinct pixels of the column,
\* upwards or downwards, as greedy nearest-neighbour sequencing orders them
Segments ==
    {s \in SeqsOf(ColumnPixels, 2, 3) :
        \/ \A i \in 1..(Len(s) - 1) : s[i][2] < s[i + 1][2]
        \/ \A i \in 1..(Len(s) - 1) : s[i][2] > s[i + 1][2]}

\* the translations of the bundles: the plane z = 0 or the plane z = 1
Transforms == {<<0, 0, 0>>, <<0, 0, 1>>}

\* the normal pcl::NormalEstimation gives every sample of a plane z = const
\* seen from above
PlaneNormal == <<0, 0, 1>>

\* the bundles with n pixel curves
Bundles(n) ==
    {[segments |-> s, cloud |-> c, transform |-> t, normal |-> PlaneNormal] :
        s \in SeqsOf(Segments, n, n), c \in Clouds, t \in Transforms}

\* the points the outlier filter may reject: none, or one point of the cloud
OutlierChoices(data) ==
    IF cfg.stat_removal_enable
    THEN {{}} \cup {{p} : p \in SourcePoints(TransformPointCloud(data.cloud, data.transform))}
    ELSE {{}}

\* what a read of front() or back() of an empty cloud may yield
Garbage == {NaN, <<0, 0, 0>>}

\* the configurations compute() is run under
Configs ==
    {Config(TRUE, 0, 0, 2, 1, 1, 0, 2, FALSE),     \* kernel size 0
     Config(TRUE, 1, 3, 2, 1, 1, 0, 2, FALSE),     \* unknown kernel type
     Config(TRUE, 1, 0, 2, 1, 1, 0, 2, FALSE),
     Config(FALSE, 1, 0, 1, 1, 1, 0, 2, FALSE),    \* no pixel curve is closed
     Config(TRUE, 1, 0, 3, 1, 1, 0, 2, FALSE),     \* every pixel curve is closed
     Config(TRUE, 1, 0, 2, 0, 1, 0, 2, FALSE),     \* only touching curves merge
     Config(TRUE, 1, 0, 2, 1, 2, 0, 2, FALSE),     \* curves close at distance 1
     Config(TRUE, 1, 0, 2, 1, 1, 1, 2, FALSE),     \* vertices at distance 1 dropped
     Config(TRUE, 1, 0, 2, 1, 1, 0, 3, FALSE),     \* curves of two points dropped
     Config(TRUE, 1, 0, 2, 1, 1, 0, 2, TRUE)}      \* outliers removed

\* the RegionResults an earlier call of compute() left: one open region of
\* three poses after a call that returned false, and one closed region of four
\* poses more after a call that returned true
PriorCloud == {[p |-> <<0, y, 0>>, n |-> PlaneNormal] : y \in 0..2}

PriorNearest == [p \in {<<0, y, 0>>: y \in 0..2} |-> [p |-> p, n |-> PlaneNormal]]

PriorOpenRegions ==
    [images |-> <<"drawing">>,
     open_regions_poses |->
        ComputePoses(PriorCloud, <<<<<<0, 0, 0>>, <<0, 1, 0>>, <<0, 2, 0>>>>>>, <<>>,
                     PriorNearest).curves_poses,
     closed_regions_poses |-> <<>>]

PriorRegions ==
    [PriorOpenRegions EXCEPT !.closed_regions_poses =
        ComputePoses(PriorCloud, <<<<<<0, 0, 0>>, <<0, 1, 0>>, <<0, 2, 0>>, <<0, 0, 0>>>>>>,
                     <<>>, PriorNearest).curves_poses]

Init ==
    /\ cfg \in Configs
    /\ pc = "idle"
    /\ regions \in {EmptyRegions, PriorOpenRegions, PriorRegions}
    /\ regions0 = EmptyRegions
    /\ closed_contours_points = <<>>
    /\ open_contours_points = <<>>
    /\ normals = {}
    /\ stage = <<>>
    /\ ret = "none"
    /\ simplified = <<>>
    /\ stale = NoStale
    /\ fin = NoOutput
    /\ fout = NoOutput

\* the caller calls compute(input, regions): lines 533-537
Call ==
    /\ pc = "idle"
    /\ pc' = "loop"
    /\ regions0' = regions
    /\ UNCHANGED <<cfg, regions, closed_contours_points, open_contours_points, normals,
                   stage, ret, simplified, stale, fin, fout>>

HasEmpty(curves) == \E k \in 1..Len(curves) : curves[k] = <<>>

\* lines 538-724: the loop body for the next bundle of the input
Bundle ==
    /\ pc = "loop"
    /\ \E n \in 0..(MaxCurves - Len(closed_contours_points) - Len(open_contours_points)) :
       \E data \in Bundles(n) :
       \E outliers \in OutlierChoices(data) :
         LET r == ProcessBundle(data, outliers)
         IN  /\ regions' = [regions EXCEPT !.images = r.images]
             /\ stage' = stage \o r.stages
             /\ closed_contours_points' = r.closed
             /\ open_contours_points' = r.open
             /\ normals' = r.normals
             /\ pc' = IF r.returned THEN "done" ELSE "loop"
             /\ ret' = IF r.returned THEN "false" ELSE ret
             /\ IF HasEmpty(r.closed \o r.open) /\ stale = NoStale
                THEN stale' \in {[front |-> f, back |-> b] : f \in Garbage, b \in Garbage}
                ELSE stale' = stale
    /\ UNCHANGED <<cfg, regions0, simplified, fin, fout>>

\* lines 726-765: the input is exhausted
Finish ==
    /\ pc = "loop"
    /\ \E a \in {AssembledCurves} :
         /\ simplified' = a.simplified
         /\ IF a.threw
            THEN /\ pc' = "threw"
                 /\ stage' = Append(stage, [name |-> "combineIntoClosedRegions",
                                            ok |-> a.res.ok])
                 /\ UNCHANGED <<regions, ret, closed_contours_points,
                                open_contours_points>>
            ELSE \E nearest \in KdTreeAnswers(normals, VerticesOf(a.closed \o a.open)) :
                 \E f \in {Assemble(a, nearest)} :
                   /\ pc' = "done"
                   /\ stage' = stage \o f.stages
                   /\ regions' = [regions EXCEPT
                                    !.open_regions_poses = f.open_regions_poses,
                                    !.closed_regions_poses = f.closed_regions_poses]
                   /\ ret' = IF f.ret THEN "true" ELSE "false"
                   /\ closed_contours_points' = a.closed
                   /\ open_contours_points' = a.open
    /\ UNCHANGED <<cfg, regions0, normals, stale, fin, fout>>

\* front() or back() of an empty cloud (lines 776, 904, 951-960) is undefined
\* behaviour: the process may also be killed instead of reading a stale value
Crash ==
    /\ pc = "loop"
    /\ HasEmpty(closed_contours_points \o open_contours_points)
    /\ pc' = "crashed"
    /\ UNCHANGED <<cfg, regions, regions0, closed_contours_points, open_contours_points,
                   normals, stage, ret, simplified, stale, fin, fout>>

Next == Call \/ Bundle \/ Finish \/ Crash

Spec == Init /\ [][Next]_vars

---------------------------------------------------------------------------
(* Properties of compute()                                                 *)

\* the closed and the open regions this call appended
NewClosed ==
    Slice(regions.closed_regions_poses, Len(regions0.closed_regions_poses) + 1,
          Len(regions.closed_regions_poses))

NewOpen ==
    Slice(regions.open_regions_poses, Len(regions0.open_regions_poses) + 1,
          Len(regions.open_regions_poses))

IsPrefix(s, t) == Len(s) <= Len(t) /\ \A k \in 1..Len(s) : s[k] = t[k]

Returned == pc = "done"

\* C1: compute() returns true exactly when this call produced at least one
\* closed pose sequence.
C1_TrueIffClosedProduced ==
    Returned => (ret = "true" <=> NewClosed # <<>>)

\* C2 as stated: when compute() returns false the caller's RegionResults is
\* as it was before the call.
C2_FalseLeavesRegionsUntouched ==
    (Returned /\ ret = "false") => regions = regions0

\* C2: when compute() returns false, closed_regions_poses is as it was before
\* the call, and images and open_regions_poses still begin with what they
\* held before the call.
C2_FalseOnlyAppends ==
    (Returned /\ ret = "false") =>
        /\ regions.closed_regions_poses = regions0.closed_regions_poses
        /\ IsPrefix(regions0.images, regions.images)
        /\ IsPrefix(regions0.open_regions_poses, regions.open_regions_poses)

\* a false return after which both images and open regions were appended
C2_Witness ==
    /\ Returned /\ ret = "false"
    /\ regions0.open_regions_poses # <<>>
    /\ NewOpen # <<>>
    /\ Len(regions.images) > Len(regions0.images)

FailedStages(names) == {i \in 1..Len(stage) : ~stage[i].ok /\ stage[i].name \in names}

StageNames ==
    {"compute2dContours", "extractContoursFromCloud", "computeNormals",
     "combineIntoClosedRegions", "computePoses"}

\* C3 as stated: a stage that fails is the last stage run, and compute()
\* returns false.
C3_AnyFailureStops ==
    \A i \in FailedStages(StageNames) : i = Len(stage) /\ Returned /\ ret = "false"

\* C3: a failure of compute2dContours, extractContoursFromCloud or
\* computeNormals is the last stage run, and compute() returns false.
C3_BundleFailureStops ==
    \A i \in FailedStages({"compute2dContours", "extractContoursFromCloud", "computeNormals"}) :
        i = Len(stage) /\ Returned /\ ret = "false"

\* the second bundle failed in extractContoursFromCloud
C3_Witness ==
    /\ Len(stage) > 3
    /\ stage[Len(stage)] = [name |-> "extractContoursFromCloud", ok |-> FALSE]
    /\ Returned /\ ret = "false"

\* C4: every closed region this call emits starts and ends at the same
\* position.
C4_ClosedFirstEqualsLast ==
    Returned =>
        \A k \in 1..Len(NewClosed) : NewClosed[k][1].t = NewClosed[k][Len(NewClosed[k])].t

\* C8: every pose sequence compute() emits has at least min_num_points
\* poses, and when every simplified curve has fewer points the call emits no
\* region and returns false on an empty RegionResults.
C8_MinNumPoints ==
    /\ \A k \in 1..Len(NewClosed) : Len(NewClosed[k]) >= cfg.min_num_points
    /\ \A k \in 1..Len(NewOpen) : Len(NewOpen[k]) >= cfg.min_num_points
    /\ (/\ Returned /\ stage[Len(stage)].name = "computePoses"
        /\ \A k \in 1..Len(simplified) : Len(simplified[k]) < cfg.min_num_points)
       => /\ NewClosed = <<>> /\ NewOpen = <<>>
          /\ (regions0 = EmptyRegions => ret = "false")

\* every curve was simplified to fewer than min_num_points points
C8_Witness ==
    /\ Returned /\ stage[Len(stage)].name = "computePoses"
    /\ Len(simplified) = 2
    /\ \A k \in 1..Len(simplified) :
          Len(simplified[k]) > 0 /\ Len(simplified[k]) < cfg.min_num_points
    /\ regions0 = EmptyRegions /\ ret = "false"

---------------------------------------------------------------------------
(* Specification SpecCombine: combineIntoClosedRegions on its own          *)

\* most curves in the list handed to combineIntoClosedRegions
MaxContours == 2

\* curve vertices: three points, not on one line
CombinePts == {<<0, 0, 0>>, <<1, 0, 0>>, <<0, 1, 0>>}

\* pcl_cfg.max_merge_dist and pcl_cfg.closed_curve_max_dist tried
CombineCfgs ==
    {[PlainCfg EXCEPT !.max_merge_dist = m, !.closed_curve_max_dist = c] :
        m \in {0, 1}, c \in {0, 1, 2}}

InitCombine ==
    /\ NoCompute
    /\ cfg \in CombineCfgs
    /\ fin \in {[fn |-> "combineIntoClosedRegions", contours_points |-> cs] :
                  cs \in SeqsOf(SeqsOf(CombinePts, 1, MaxCurveLen), 0, MaxContours)}
    /\ fout = NoOutput

CallCombine ==
    /\ fin.fn = "combineIntoClosedRegions"
    /\ fout = NoOutput
    /\ \E r \in {CombineIntoClosedRegions(fin.contours_points)} :
         fout' = [tag |-> "combine", res |-> r.res, closed_curves |-> r.closed_curves,
                  open_curves |-> r.open_curves, merges |-> r.merges]
    /\ UNCHANGED <<cfg, fin, computeVars>>

NextCombine == CallCombine

SpecCombine == InitCombine /\ [][NextCombine]_vars

\* a and b are at most max_merge_dist apart
WithinMergeDist(a, b) == Norm2(a, b) <= cfg.max_merge_dist * cfg.max_merge_dist

\* the list holds exactly two curves, and each end of the first is within
\* max_merge_dist of the facing end of the second
TwoHalves ==
    /\ fin.fn = "combineIntoClosedRegions"
    /\ Len(fin.contours_points) = 2
    /\ LET c1 == fin.contours_points[1]
           c2 == fin.contours_points[2]
       IN  \/ WithinMergeDist(c1[Len(c1)], c2[1]) /\ WithinMergeDist(c2[Len(c2)], c1[1])
           \/ WithinMergeDist(c1[1], c2[1]) /\ WithinMergeDist(c1[Len(c1)], c2[Len(c2)])

\* the squared distance of the two ends that joining the two halves at their
\* closest ends leaves free
FreeEndsD2 ==
    LET c1 == fin.contours_points[1]
        c2 == fin.contours_points[2]
        d == <<Norm2(c1[1], c2[1]), Norm2(c1[1], c2[Len(c2)]),
               Norm2(c1[Len(c1)], c2[1]), Norm2(c1[Len(c1)], c2[Len(c2)])>>
        k == CHOOSE i \in 1..4 : (\A j \in 1..4 : d[i] <= d[j]) /\ (\A j \in 1..(i - 1) : d[j] > d[i])
    IN  d[5 - k]

\* C11 as stated: two halves of one loop give exactly one closed curve and no
\* open curve, whatever max_merge_dist and closed_curve_max_dist are.
C11_HalvesGiveOneClosed ==
    (fout.tag = "combine" /\ TwoHalves)
        => Len(fout.closed_curves) = 1 /\ fout.open_curves = <<>>

\* C11: two halves of one loop are merged into exactly one curve holding the
\* points of both; it is emitted closed (its first point appended) when the
\* two ends the merge leaves free are less than closed_curve_max_dist apart,
\* and open otherwise.
C11_HalvesGiveOneCurve ==
    (fout.tag = "combine" /\ TwoHalves)
        => LET n == Len(fin.contours_points[1]) + Len(fin.contours_points[2])
               closes == FreeEndsD2 < cfg.closed_curve_max_dist * cfg.closed_curve_max_dist
           IN  /\ fout.merges = 1
               /\ closes => /\ fout.open_curves = <<>>
                            /\ Len(fout.closed_curves) = 1
                            /\ Len(fout.closed_curves[1]) = n + 1
               /\ ~closes => /\ fout.closed_curves = <<>>
                             /\ Len(fout.open_curves) = 1
                             /\ Len(fout.open_curves[1]) = n

\* two halves of two distinct points each, whose free ends are one apart, were
\* merged into one closed curve
C11_Witness ==
    /\ fout.tag = "combine" /\ TwoHalves
    /\ \A k \in 1..2 : Len(fin.contours_points[k]) = 2
                       /\ fin.contours_points[k][1] # fin.contours_points[k][2]
    /\ FreeEndsD2 = 1
    /\ Len(fout.closed_curves) = 1 /\ fout.open_curves = <<>>

---------------------------------------------------------------------------
(* Specification SpecInterpolate: the gap filling of lines 553-583         *)

\* line 59
MIN_PIXEL_DISTANCE == 1

\* int / int in C++: the quotient is truncated towards zero (b > 0)
TruncDiv(a, b) == IF a >= 0 THEN a \div b ELSE -((-a) \div b)

\* linspace<int>, lines 84-94: N values from a in steps of h = (b - a) / (N - 1)
Linspace(a, b, N) == [k \in 1..N |-> a + (k - 1) * TruncDiv(b - a, N - 1)]

\* lines 564-566
MaxCoordDist(p1, p2) ==
    IF Abs(p2[1] - p1[1]) > Abs(p2[2] - p1[2]) THEN Abs(p2[1] - p1[1]) ELSE Abs(p2[2] - p1[2])

\* lines 572-580: the num_elements points pushed for the segment p1, p2
InterpolatedSegment(p1, p2, num_elements) ==
    [k \in 1..num_elements |-> <<Linspace(p1[1], p2[1], num_elements)[k],
                                 Linspace(p1[2], p2[2], num_elements)[k]>>]

RECURSIVE InterpolateFrom(_, _, _)
\* lines 559-580: the loop over the vertices, from vertex j on
InterpolateFrom(indices, j, interpolated_indices) ==
    IF j > Len(indices) THEN interpolated_indices
    ELSE IF MaxCoordDist(indices[j - 1], indices[j]) <= MIN_PIXEL_DISTANCE
    THEN InterpolateFrom(indices, j + 1, Append(interpolated_indices, indices[j]))
    ELSE InterpolateFrom(indices, j + 1,
             interpolated_indices
                 \o InterpolatedSegment(indices[j - 1], indices[j],
                                        MaxCoordDist(indices[j - 1], indices[j]) + 1))

\* lines 556-582, for one contour (cv::findContours returns no empty contour)
Interpolate(indices) == InterpolateFrom(indices, 2, <<indices[1]>>)

\* most vertices of a contour
MaxVertices == 3

\* the pixels of a 4 x 4 image
ImagePixels == (0..3) \X (0..3)

InitInterpolate ==
    /\ NoCompute
    /\ cfg = PlainCfg
    /\ fin \in {[fn |-> "interpolate", indices |-> c] :
                  c \in SeqsOf(ImagePixels, 1, MaxVertices)}
    /\ fout = NoOutput

CallInterpolate ==
    /\ fin.fn = "interpolate"
    /\ fout = NoOutput
    /\ fout' = [tag |-> "interpolate", interpolated_indices |-> Interpolate(fin.indices)]
    /\ UNCHANGED <<cfg, fin, computeVars>>

NextInterpolate == CallInterpolate

SpecInterpolate == InitInterpolate /\ [][NextInterpolate]_vars

\* C12: after the gap filling, consecutive points of the contour differ by at
\* most 1 in x and at most 1 in y.
C12_EightConnected ==
    fout.tag = "interpolate"
        => \A i \in 1..(Len(fout.interpolated_indices) - 1) :
              MaxCoordDist(fout.interpolated_indices[i], fout.interpolated_indices[i + 1]) <= 1

\* C13: a contour of two vertices p1, p2 with d = max(|dx|, |dy|) > 1 becomes
\* exactly d + 1 points, the first p1 and the last p2.
C13_TwoVertices ==
    (/\ fout.tag = "interpolate"
     /\ Len(fin.indices) = 2
     /\ MaxCoordDist(fin.indices[1], fin.indices[2]) > 1)
        => /\ Len(fout.interpolated_indices) = MaxCoordDist(fin.indices[1], fin.indices[2]) + 1
           /\ fout.interpolated_indices[1] = fin.indices[1]
           /\ fout.interpolated_indices[Len(fout.interpolated_indices)] = fin.indices[2]

---------------------------------------------------------------------------
(* The curves compute() hands to computePoses                              *)

\* no two consecutive vertices of the curve coincide; in a closed curve the
\* pair made of its first and its last vertex may
NoRepeatedVertex(c, closed) ==
    \A i \in 1..(Len(c) - 1) : c[i] # c[i + 1] \/ (closed /\ i = 1 /\ i + 1 = Len(c))

\* C14: in every curve that reaches computePoses, consecutive vertices are
\* apart, except the pair of the first and the last vertex of a closed loop.
C14_ConsecutiveVerticesApart ==
    (Returned /\ stage[Len(stage)].name = "computePoses")
        => /\ \A k \in 1..Len(closed_contours_points) :
                NoRepeatedVertex(closed_contours_points[k], TRUE)
           /\ \A k \in 1..Len(open_contours_points) :
                NoRepeatedVertex(open_contours_points[k], FALSE)

---------------------------------------------------------------------------
(* Specification SpecSequence: sequence(), one loop iteration per step.    *)
(* Points of the cloud are named by their position 1..n in it (0..n-1 in   *)
(* the code).                                                              *)

\* lines 158-175: the locals before the loop.  searched, path_before, found,
\* current and removed are history: the indices handed to the k-d tree at the
\* last search, sequenced_indices as that search met them, the index it
\* found, search_point_idx at the last erase and the indices the erase took
\* out of unsequenced_indices
SequenceLocals(cloud) ==
    [tag |-> "sequence.loop",
     sequenced_indices |-> <<>>,
     unsequenced_indices |-> [i \in 1..Len(cloud) |-> i],
     search_point_idx |-> 1,
     iter_count |-> 0,
     warned |-> FALSE,
     searched |-> <<>>, path_before |-> <<>>, found |-> 0, current |-> 0, removed |-> {}]

\* line 243: return sequenced_points
SequenceReturn(cloud, l) ==
    [tag |-> "sequence",
     sequenced_points |-> [i \in 1..Len(l.sequenced_indices) |-> cloud[l.sequenced_indices[i]]],
     sequenced_indices |-> l.sequenced_indices,
     warned |-> l.warned,
     searched |-> l.searched, path_before |-> l.path_before, found |-> l.found,
     current |-> l.current, removed |-> l.removed]

\* line 182 had it been left out
EraseNothing(unsequenced_indices, idx) == unsequenced_indices

\* line 182: erase(std::remove(...)) for an index the vector holds
EraseIndex(unsequenced_indices, idx) ==
    SelectIdx(unsequenced_indices,
              [i \in 1..Len(unsequenced_indices) |-> unsequenced_indices[i] # idx], 1)

\* line 198: the indices nearestKSearch may return, among cloud_indices
NearestIndices(cloud, cloud_indices, search_point) ==
    {k \in Range(cloud_indices) :
        \A k2 \in Range(cloud_indices) :
            Norm2(cloud[k], search_point) <= Norm2(cloud[k2], search_point)}

\* the test of line 226 had it been "<="
ReverseFirstOrEqual(start_point, closest_point, k_sqr_distance) ==
    Norm2(start_point, closest_point) <= k_sqr_distance

\* line 226: diff.norm() < std::sqrt(k_sqr_distances[0])
ReverseFirst(start_point, closest_point, k_sqr_distance) ==
    Norm2(start_point, closest_point) < k_sqr_distance

\* lines 209-213: the first point is saved at the first search
WithFirstPoint(l) ==
    IF l.sequenced_indices = <<>> THEN <<l.search_point_idx>> ELSE l.sequenced_indices

\* lines 222-239: the point found, k, is added to the path
AddToPath(cloud, l, path, k) ==
    [l EXCEPT !.search_point_idx = k,
              !.sequenced_indices =
                  Append(IF ReverseFirst(cloud[path[1]], cloud[k],
                                         Norm2(cloud[l.search_point_idx], cloud[k]))
                         THEN Reverse(path) ELSE path, k),
              !.path_before = path, !.found = k]

\* lines 186-239: the rest of an iteration after the erase; k is the index
\* nearestKSearch returned
SearchAndAdd(cloud, l, k) ==
    IF k \in Range(WithFirstPoint(l))
    THEN [l EXCEPT !.sequenced_indices = WithFirstPoint(l), !.warned = TRUE,
                   !.path_before = WithFirstPoint(l), !.found = k]
    ELSE AddToPath(cloud, l, WithFirstPoint(l), k)

\* lines 179-182: the head of an iteration
AfterErase(l) ==
    [l EXCEPT !.iter_count = l.iter_count + 1,
              !.unsequenced_indices = EraseIndex(l.unsequenced_indices, l.search_point_idx),
              !.current = l.search_point_idx,
              !.removed = Range(l.unsequenced_indices)
                              \ Range(EraseIndex(l.unsequenced_indices, l.search_point_idx))]

\* most points of a cloud handed to sequence
MaxCloud == 4

\* pixels as points with z = 0: four on a line and one beside it
SequencePts == {<<0, 0, 0>>, <<1, 0, 0>>, <<2, 0, 0>>, <<3, 0, 0>>, <<1, 1, 0>>}

InitSequence ==
    /\ NoCompute
    /\ cfg = PlainCfg
    /\ fin \in {[fn |-> "sequence", points |-> c] : c \in SeqsOf(SequencePts, 1, MaxCloud)}
    /\ fout = NoOutput

\* lines 147-175
CallSequence ==
    /\ fin.fn = "sequence"
    /\ fout = NoOutput
    /\ fout' = SequenceLocals(fin.points)
    /\ UNCHANGED <<cfg, fin, computeVars>>

\* lines 177-243: one iteration of the while loop, and the return when the
\* loop ends.  erase() of an index the vector does not hold is undefined
IterateSequence ==
    /\ fin.fn = "sequence"
    /\ fout.tag = "sequence.loop"
    /\ IF ~(fout.iter_count <= Len(fin.points))
       THEN fout' = SequenceReturn(fin.points, fout)
       ELSE IF fout.search_point_idx \notin Range(fout.unsequenced_indices)
       THEN fout' = [tag |-> "sequence.undefined"]
       ELSE \E l \in {AfterErase(fout)} :
              IF l.unsequenced_indices = <<>>
              THEN fout' = SequenceReturn(fin.points, l)
              ELSE \E k \in NearestIndices(fin.points, l.unsequenced_indices,
                                           fin.points[l.search_point_idx]) :
                     fout' = SearchAndAdd(fin.points,
                                 [l EXCEPT !.searched = l.unsequenced_indices], k)
    /\ UNCHANGED <<cfg, fin, computeVars>>

NextSequence == CallSequence \/ IterateSequence

SpecSequence == InitSequence /\ [][NextSequence]_vars

\* C15: sequence returns a path that holds every input point exactly once.
C15_Permutation ==
    fout.tag = "sequence"
        => /\ Len(fout.sequenced_indices) = Len(fin.points)
           /\ Range(fout.sequenced_indices) = 1..Len(fin.points)

\* sequence is in its loop or has returned
InSequence == fout.tag \in {"sequence.loop", "sequence"}

\* C16: at every nearest-neighbour search the indices searched are disjoint
\* from the sequenced indices, every iteration erases exactly the current
\* index, the index found is never sequenced already and the warning of line
\* 218 is never reached.
C16_SearchAmongUnsequenced ==
    InSequence
        => /\ Range(fout.searched) \cap Range(fout.path_before) = {}
           /\ fout.found \notin Range(fout.path_before)
           /\ fout.current # 0 => fout.removed = {fout.current}
           /\ ~fout.warned

\* a search met a path of two points or more and two or more remaining ones
C16_Witness ==
    /\ InSequence
    /\ Len(fout.path_before) >= 2 /\ Len(fout.searched) >= 2
    /\ fout.found \in Range(fout.searched)
    /\ fout.found \in Range(fout.sequenced_indices)

---------------------------------------------------------------------------
(* Specification SpecSplit: split().  Points of the path are named by      *)
(* their position 1..n in it (0..n-1 in the code).  A segment is kept with *)
(* the start_idx and end_idx it was cut at.                                *)

\* line 285: diff.norm() < MIN_POINT_DIST, with MIN_POINT_DIST = 1e-8 (line
\* 60); on whole coordinates that is a distance of zero
BelowMinPointDist(p_current, p_prev) == Norm2(p_current, p_prev) = 0

RECURSIVE SegmentFrom(_, _, _, _, _)
\* lines 278-292, from p_idx on
SegmentFrom(sequenced_points, start_idx, end_idx, p_idx, segment_points) ==
    IF p_idx > end_idx
    THEN segment_points
    ELSE IF /\ p_idx > start_idx
            /\ BelowMinPointDist(sequenced_points[p_idx], BackOf(segment_points))
    THEN SegmentFrom(sequenced_points, start_idx, end_idx, p_idx + 1, segment_points)
    ELSE SegmentFrom(sequenced_points, start_idx, end_idx, p_idx + 1,
                     Append(segment_points, sequenced_points[p_idx]))

\* lines 258-266: the next point is nearer than split_dist, the segment goes on
SegmentGoesOn(sequenced_points, split_dist, i) ==
    /\ i < Len(sequenced_points)
    /\ NormLess(Norm2(sequenced_points[i + 1], sequenced_points[i]), split_dist)

\* lines 272 and 302 had they been "start_idx = i"
NextStartSame(i) == i

\* lines 272 and 302: start_idx = i+1
NextStart(i) == i + 1

RECURSIVE SplitFrom(_, _, _, _, _)
\* lines 255-303, from iteration i on
SplitFrom(sequenced_points, split_dist, i, start_idx, sequenced_points_vec) ==
    IF i > Len(sequenced_points)
    THEN sequenced_points_vec
    ELSE IF SegmentGoesOn(sequenced_points, split_dist, i)
    THEN SplitFrom(sequenced_points, split_dist, i + 1, start_idx, sequenced_points_vec)
    ELSE IF i = start_idx
    THEN SplitFrom(sequenced_points, split_dist, i + 1, NextStart(i), sequenced_points_vec)
    ELSE IF Len(SegmentFrom(sequenced_points, start_idx, i, start_idx, <<>>)) <= 1
    THEN SplitFrom(sequenced_points, split_dist, i + 1, start_idx, sequenced_points_vec)
    ELSE SplitFrom(sequenced_points, split_dist, i + 1, NextStart(i),
             Append(sequenced_points_vec,
                    [start_idx |-> start_idx, end_idx |-> i,
                     points |-> SegmentFrom(sequenced_points, start_idx, i, start_idx, <<>>)]))

\* lines 246-307
Split(sequenced_points, split_dist) == SplitFrom(sequenced_points, split_dist, 1, 1, <<>>)

\* most points of a path handed to split
MaxPath == 4

\* pixels of one image row as points with z = 0
SplitPts == {<<x, 0, 0>> : x \in 0..4}

\* split distances tried
SplitDists == {0, 1, 2}

InitSplit ==
    /\ NoCompute
    /\ cfg = PlainCfg
    /\ fin \in {[fn |-> "split", sequenced_points |-> c, split_dist |-> d] :
                   c \in SeqsOf(SplitPts, 0, MaxPath), d \in SplitDists}
    /\ fout = NoOutput

CallSplit ==
    /\ fin.fn = "split"
    /\ fout = NoOutput
    /\ fout' = [tag |-> "split",
                sequenced_points_vec |-> Split(fin.sequenced_points, fin.split_dist)]
    /\ UNCHANGED <<cfg, fin, computeVars>>

NextSplit == CallSplit

SpecSplit == InitSplit /\ [][NextSplit]_vars

\* path points i and i+1 are both in, or both out of, every segment
InSameSegments(i) ==
    \A k \in 1..Len(fout.sequenced_points_vec) :
        LET seg == fout.sequenced_points_vec[k]
        IN  (i \in seg.start_idx..seg.end_idx) <=> (i + 1 \in seg.start_idx..seg.end_idx)

\* the squared distance of path points i and i+1
StepNorm2(i) == Norm2(fin.sequenced_points[i + 1], fin.sequenced_points[i])

\* C18 as stated: two consecutive path points whose distance is less than or
\* equal to split_dist are never put in different segments.
C18_CloseOrEqualStayTogether ==
    fout.tag = "split"
        => \A i \in 1..(Len(fin.sequenced_points) - 1) :
              ~NormGreater(StepNorm2(i), fin.split_dist) => InSameSegments(i)

\* C18: two consecutive path points whose distance is less than split_dist
\* are never put in different segments; a segment boundary lies only where
\* the distance is split_dist or more.
C18_CloseStayTogether ==
    fout.tag = "split"
        => \A i \in 1..(Len(fin.sequenced_points) - 1) :
              NormLess(StepNorm2(i), fin.split_dist) => InSameSegments(i)

\* a path was cut in two segments between two points exactly split_dist
\* apart, each segment holding points nearer than that
C18_Witness ==
    /\ fout.tag = "split"
    /\ Len(fout.sequenced_points_vec) = 2
    /\ \E i \in 2..(Len(fin.sequenced_points) - 2) :
          /\ StepNorm2(i) = fin.split_dist * fin.split_dist
          /\ fout.sequenced_points_vec[1].end_idx = i
          /\ fout.sequenced_points_vec[2].start_idx = i + 1
          /\ NormLess(StepNorm2(i - 1), fin.split_dist)
          /\ NormLess(StepNorm2(i + 1), fin.split_dist)

\* C19: no segment emitted by split holds two consecutive points whose
\* distance exceeds split_dist.
C19_NoGapInsideSegment ==
    fout.tag = "split"
        => \A k \in 1..Len(fout.sequenced_points_vec) :
              LET points == fout.sequenced_points_vec[k].points
              IN  \A j \in 1..(Len(points) - 1) :
                     ~NormGreater(Norm2(points[j + 1], points[j]), fin.split_dist)

---------------------------------------------------------------------------
(* Specification SpecFindClosed: findClosedCurves() on segments as split() *)
(* hands them over.                                                        *)

\* most segments handed to findClosedCurves
MaxSegments == 2

\* most points of one of them
MaxSegmentLen == 2

\* pixels of one image row as points with z = 0
SegmentPts == {<<x, 0, 0>> : x \in 0..2}

\* values of max_dist tried
ClosedDists == {0, 1, 2}

InitFindClosed ==
    /\ NoCompute
    /\ cfg = PlainCfg
    /\ fin \in {[fn |-> "findClosedCurves", sequenced_curves_vec |-> v, max_dist |-> d] :
                   v \in SeqsOf(SeqsOf(SegmentPts, 1, MaxSegmentLen), 0, MaxSegments),
                   d \in ClosedDists}
    /\ fout = NoOutput

CallFindClosed ==
    /\ fin.fn = "findClosedCurves"
    /\ fout = NoOutput
    /\ \E r \in {FindClosedCurves(fin.sequenced_curves_vec, fin.max_dist)} :
          fout' = [tag |-> "findClosedCurves",
                   closed_curves_vec |-> r.closed, open_curves_vec |-> r.open]
    /\ UNCHANGED <<cfg, fin, computeVars>>

NextFindClosed == CallFindClosed

SpecFindClosed == InitFindClosed /\ [][NextFindClosed]_vars

\* the first and last point of segment c are strictly nearer than max_dist
EndsNearer(c) == Norm2(c[1], c[Len(c)]) < fin.max_dist * fin.max_dist

\* C20: the closed list holds, in order, the input segments whose first and
\* last points are strictly nearer than max_dist, each with its first point
\* appended; the open list holds the other segments unchanged; so a closed
\* curve has first = last and its first and second-to-last points strictly
\* nearer than max_dist.
C20_ClosedOrOpen ==
    fout.tag = "findClosedCurves"
        => LET vec == fin.sequenced_curves_vec
               near == [k \in 1..Len(vec) |-> EndsNearer(vec[k])]
               far == [k \in 1..Len(vec) |-> ~EndsNearer(vec[k])]
           IN  /\ fout.closed_curves_vec =
                     [k \in 1..Len(SelectIdx(vec, near, 1)) |->
                         Append(SelectIdx(vec, near, 1)[k], SelectIdx(vec, near, 1)[k][1])]
               /\ fout.open_curves_vec = SelectIdx(vec, far, 1)
               /\ \A k \in 1..Len(fout.closed_curves_vec) :
                     LET c == fout.closed_curves_vec[k]
                     IN  /\ c[1] = c[Len(c)]
                         /\ Norm2(c[1], c[Len(c) - 1]) < fin.max_dist * fin.max_dist

\* of two segments the first was marked closed and the second, whose ends are
\* exactly max_dist apart, open
C20_Witness ==
    /\ fout.tag = "findClosedCurves"
    /\ Len(fin.sequenced_curves_vec) = 2
    /\ Len(fin.sequenced_curves_vec[1]) = 2
    /\ fin.sequenced_curves_vec[1][1] # fin.sequenced_curves_vec[1][2]
    /\ Len(fout.closed_curves_vec) = 1
    /\ fout.closed_curves_vec[1] = Append(fin.sequenced_curves_vec[1], fin.sequenced_curves_vec[1][1])
    /\ fout.open_curves_vec = <<fin.sequenced_curves_vec[2]>>
    /\ Norm2(fin.sequenced_curves_vec[2][1], fin.sequenced_curves_vec[2][2])
           = fin.max_dist * fin.max_dist

---------------------------------------------------------------------------
(* mergeCurves, under SpecMerge: what a merge is made of                   *)

\* the squared endpoint distances in the order front-front, front-back,
\* back-front, back-back of curves i (fin.c1) and j (fin.c2)
EndPairD2 ==
    <<Norm2(fin.c1[1], fin.c2[1]), Norm2(fin.c1[1], fin.c2[Len(fin.c2)]),
      Norm2(fin.c1[Len(fin.c1)], fin.c2[1]),
      Norm2(fin.c1[Len(fin.c1)], fin.c2[Len(fin.c2)])>>

\* the first closest endpoint pair in that order
FirstClosestPair ==
    CHOOSE m \in 1..4 :
        /\ \A n \in 1..4 : EndPairD2[m] <= EndPairD2[n]
        /\ \A n \in 1..(m - 1) : EndPairD2[n] > EndPairD2[m]

\* the endpoints of i and of j that make pair m
EndOfI(m) == IF m \in {1, 2} THEN fin.c1[1] ELSE fin.c1[Len(fin.c1)]
EndOfJ(m) == IF m \in {1, 3} THEN fin.c2[1] ELSE fin.c2[Len(fin.c2)]

\* C21: a merge of i and j is reverse(j)+i, j+i, i+j or i+reverse(j) as the
\* first closest endpoint pair is front-front, front-back, back-front or
\* back-back; it has |i|+|j| points and the two endpoints that met are
\* adjacent in it.
C21_MergedByClosestEnds ==
    (fout.tag = "merge" /\ fout.ok)
        => LET m == FirstClosestPair
               i == fin.c1
               j == fin.c2
           IN  /\ fout.merged = (CASE m = 1 -> Reverse(j) \o i
                                   [] m = 2 -> j \o i
                                   [] m = 3 -> i \o j
                                   [] m = 4 -> i \o Reverse(j))
               /\ Len(fout.merged) = Len(i) + Len(j)
               /\ IF m \in {1, 2}
                  THEN /\ fout.merged[Len(j)] = EndOfJ(m)
                       /\ fout.merged[Len(j) + 1] = EndOfI(m)
                  ELSE /\ fout.merged[Len(i)] = EndOfI(m)
                       /\ fout.merged[Len(i) + 1] = EndOfJ(m)

\* two curves of two distinct points each were merged back to back, j reversed
C21_Witness ==
    /\ fout.tag = "merge" /\ fout.ok
    /\ FirstClosestPair = 4
    /\ Len(fin.c1) = 2 /\ Len(fin.c2) = 2
    /\ fin.c2[1] # fin.c2[2]
    /\ fout.merged = fin.c1 \o Reverse(fin.c2)

---------------------------------------------------------------------------
(* Specification SpecCombineSteps: combineIntoClosedRegions(), one pass of *)
(* its do-while per step.  Curves are named by their position 1..n in      *)
(* contours_points (0..n-1 in the code).                                   *)

\* lines 841-845: the locals before the loop.  in_do: the do-while of curve
\* i is running; again: its condition, true before the first pass.  passes,
\* consumed, parts, closed_from and open_from are history: the passes made
\* for curve i, the candidates merged so far in the order they were merged,
\* the input curves curve_points is made of, and for each emitted curve the
\* input curves it is made of
CombineLocals ==
    [tag |-> "combine.loop", i |-> 1, in_do |-> FALSE, again |-> FALSE,
     curve_points |-> <<>>,
     acc |-> [closed |-> <<>>, open |-> <<>>, merged |-> {}, merges |-> 0],
     passes |-> 0, consumed |-> <<>>, parts |-> {},
     closed_from |-> <<>>, open_from |-> <<>>]

RECURSIVE ForPass(_, _, _, _, _)
\* lines 874-899: one run of the for loop over merge_candidate_indices, from
\* position k of the list on; consumed lists the candidates it merged
ForPass(contours, i, k, st, consumed) ==
    IF k > Len(contours) - 1
    THEN [st |-> st, consumed |-> consumed]
    ELSE ForPass(contours, i, k + 1,
                 MergeCandidate(contours, i, IF k < i THEN k ELSE k + 1, st),
                 IF MergeCandidate(contours, i, IF k < i THEN k ELSE k + 1, st).merges
                        > st.merges
                 THEN Append(consumed, IF k < i THEN k ELSE k + 1)
                 ELSE consumed)

\* line 901 had the do-while never repeated
RepeatNever(merged_curves) == FALSE

\* line 901: while(merged_curves)
RepeatPass(merged_curves) == merged_curves

\* most open curves handed to combineIntoClosedRegions
MaxOpenCurves == 3

\* curve vertices: three points of a line
StepPts == {<<x, 0, 0>> : x \in 0..2}

\* the open curves tried: one or two of these points
StepCurves == SeqsOf(StepPts, 1, 2)

\* pcl_cfg.max_merge_dist tried, with closed_curve_max_dist = 1
StepCfgs == {[PlainCfg EXCEPT !.max_merge_dist = m] : m \in {0, 1}}

InitCombineSteps ==
    /\ NoCompute
    /\ cfg \in StepCfgs
    /\ fin \in {[fn |-> "combineIntoClosedRegions.steps", contours_points |-> cs] :
                  cs \in SeqsOf(StepCurves, 0, MaxOpenCurves)}
    /\ fout = NoOutput

\* lines 834-845
CallCombineSteps ==
    /\ fin.fn = "combineIntoClosedRegions.steps"
    /\ fout = NoOutput
    /\ fout' = CombineLocals
    /\ UNCHANGED <<cfg, fin, computeVars>>

\* lines 846-868: the head of the outer loop for curve i
EnterCurve ==
    /\ fin.fn = "combineIntoClosedRegions.steps"
    /\ fout.tag = "combine.loop"
    /\ ~fout.in_do
    /\ fout.i <= Len(fin.contours_points)
    /\ IF AlreadyMerged(fout.acc.merged, fout.i)
       THEN fout' = [fout EXCEPT !.i = fout.i + 1]
       ELSE fout' = [fout EXCEPT !.in_do = TRUE, !.again = TRUE,
                                 !.curve_points = fin.contours_points[fout.i],
                                 !.passes = 0, !.parts = {fout.i}]
    /\ UNCHANGED <<cfg, fin, computeVars>>

\* lines 869-901: one pass of the do-while
DoPass ==
    /\ fin.fn = "combineIntoClosedRegions.steps"
    /\ fout.tag = "combine.loop"
    /\ fout.in_do /\ fout.again
    /\ \E r \in {ForPass(fin.contours_points, fout.i, 1,
                         [curve |-> fout.curve_points, merged |-> fout.acc.merged,
                          merged_curves |-> FALSE, merges |-> fout.acc.merges], <<>>)} :
          fout' = [fout EXCEPT !.curve_points = r.st.curve,
                               !.acc.merged = r.st.merged,
                               !.acc.merges = r.st.merges,
                               !.again = RepeatPass(r.st.merged_curves),
                               !.passes = fout.passes + 1,
                               !.consumed = fout.consumed \o r.consumed,
                               !.parts = fout.parts \cup Range(r.consumed)]
    /\ UNCHANGED <<cfg, fin, computeVars>>

\* lines 903-920: the do-while is over, curve_points is stored
StoreAndAdvance ==
    /\ fin.fn = "combineIntoClosedRegions.steps"
    /\ fout.tag = "combine.loop"
    /\ fout.in_do /\ ~fout.again
    /\ \E a \in {StoreCurve(fout.acc, fout.i,
                            [curve |-> fout.curve_points, merged |-> fout.acc.merged,
                             merges |-> fout.acc.merges])} :
          fout' = [fout EXCEPT !.acc = a, !.in_do = FALSE, !.i = fout.i + 1,
                               !.closed_from =
                                   IF Len(a.closed) > Len(fout.acc.closed)
                                   THEN Append(fout.closed_from, fout.parts)
                                   ELSE fout.closed_from,
                               !.open_from =
                                   IF Len(a.open) > Len(fout.acc.open)
                                   THEN Append(fout.open_from, fout.parts)
                                   ELSE fout.open_from]
    /\ UNCHANGED <<cfg, fin, computeVars>>

\* lines 923-941: the outer loop is over
ReturnCombine ==
    /\ fin.fn = "combineIntoClosedRegions.steps"
    /\ fout.tag = "combine.loop"
    /\ ~fout.in_do
    /\ fout.i > Len(fin.contours_points)
    /\ \E r \in {CombineResult(fin.contours_points, fout.acc)} :
          fout' = [tag |-> "combine.steps", res |-> r.res,
                   closed_curves |-> r.closed_curves, open_curves |-> r.open_curves,
                   merges |-> r.merges, consumed |-> fout.consumed,
                   closed_from |-> fout.closed_from,
                   open_from |-> fout.open_from
                       \o SelectIdx([k \in 1..Len(fin.contours_points) |-> {k}],
                                    [k \in 1..Len(fin.contours_points) |->
                                        k \notin fout.acc.merged], 1)]
    /\ UNCHANGED <<cfg, fin, computeVars>>

NextCombineSteps ==
    CallCombineSteps \/ EnterCurve \/ DoPass \/ StoreAndAdvance \/ ReturnCombine

SpecCombineSteps == InitCombineSteps /\ [][NextCombineSteps]_vars

\* combineIntoClosedRegions has returned
CombineReturned == fout.tag = "combine.steps"

\* a closed curve without the closing vertex line 908 appended
Unclosed(c) == SubSeq(c, 1, Len(c) - 1)

\* the curves emitted, closed ones first and without their closing vertex,
\* and for each the input curves it is made of
EmittedCurves ==
    [k \in 1..Len(fout.closed_curves) |-> Unclosed(fout.closed_curves[k])]
        \o fout.open_curves
EmittedFrom == fout.closed_from \o fout.open_from

\* how often point p occurs in curve c
CountIn(c, p) == Cardinality({k \in 1..Len(c) : c[k] = p})

\* the points of the input curves named in from, one curve after the other
InputPoints(from) ==
    Flatten(SelectIdx(fin.contours_points,
                      [k \in 1..Len(fin.contours_points) |-> k \in from], 1))

\* C22: the emitted curves are made of disjoint groups of input curves that
\* cover the input, each emitted curve holds just the points of its group,
\* and there are as many emitted curves as input curves less the merges.
C22_CurvesConserved ==
    CombineReturned
        => /\ Len(EmittedCurves) = Len(EmittedFrom)
           /\ UNION Range(EmittedFrom) = 1..Len(fin.contours_points)
           /\ \A a, b \in 1..Len(EmittedFrom) :
                 a # b => EmittedFrom[a] \cap EmittedFrom[b] = {}
           /\ \A k \in 1..Len(EmittedCurves) :
                 /\ Len(EmittedCurves[k]) = Len(InputPoints(EmittedFrom[k]))
                 /\ \A p \in StepPts :
                       CountIn(EmittedCurves[k], p) = CountIn(InputPoints(EmittedFrom[k]), p)
           /\ Len(fout.closed_curves) + Len(fout.open_curves)
                  = Len(fin.contours_points) - fout.merges

\* of three curves two were merged into one emitted curve and the third was
\* emitted as it was
C22_Witness ==
    /\ CombineReturned
    /\ Len(fin.contours_points) = 3
    /\ fout.merges = 1
    /\ Len(EmittedCurves) = 2
    /\ \E k \in 1..2 : Cardinality(EmittedFrom[k]) = 2 /\ Len(EmittedCurves[k]) = 4

\* the two ends of a curve
EndsOf(c) == {c[1], c[Len(c)]}

\* an end of curve a and an end of curve b are within max_merge_dist, so
\* that mergeCurves would merge a and b
StillMergeable(a, b) ==
    \E p \in EndsOf(a), q \in EndsOf(b) :
        Norm2(p, q) <= cfg.max_merge_dist * cfg.max_merge_dist

\* C23: when combineIntoClosedRegions returns, no two of the curves it
\* emitted (closed ones taken without their closing vertex) have a pair of
\* ends within max_merge_dist of each other.
C23_MergingIsMaximal ==
    CombineReturned
        => \A a, b \in 1..Len(EmittedCurves) :
              a # b => ~StillMergeable(EmittedCurves[a], EmittedCurves[b])

\* three curves became one in two passes of the do-while of the first: the
\* second curve was out of reach until the third had been merged
C23_Witness ==
    /\ CombineReturned
    /\ Len(fin.contours_points) = 3
    /\ fout.consumed = <<3, 2>>
    /\ Len(EmittedCurves) = 1
    /\ ~StillMergeable(fin.contours_points[1], fin.contours_points[2])

\* C26: every merge marks a curve that was not marked before, so that at
\* most n - 1 merges are made for n curves, and the do-while of a curve makes
\* at most n passes.
C26_MergesAndPassesBounded ==
    fout.tag = "combine.loop"
        => /\ \A a, b \in 1..Len(fout.consumed) :
                 a # b => fout.consumed[a] # fout.consumed[b]
           /\ fout.acc.merges = Len(fout.consumed)
           /\ Range(fout.consumed) \subseteq fout.acc.merged
           /\ fout.acc.merges <= Len(fin.contours_points) - 1 \/ fout.acc.merges = 0
           /\ fout.passes <= Len(fin.contours_points)

\* the do-while of the first of three curves made three passes and two merges
C26_Witness ==
    /\ fout.tag = "combine.loop"
    /\ Len(fin.contours_points) = 3
    /\ fout.i = 1 /\ fout.in_do /\ ~fout.again
    /\ fout.passes = 3
    /\ fout.acc.merges = 2

---------------------------------------------------------------------------
(* Specification SpecSimplify: simplifyByMinimunLength() on its own        *)

\* most vertices of a segment handed to simplifyByMinimunLength
MaxSegmentPoints == 4

\* curve vertices: three points of a line
SimplifyPts == {<<x, 0, 0>> : x \in 0..2}

\* values of min_length tried
SimplifyDists == {0, 1, 2}

InitSimplify ==
    /\ NoCompute
    /\ cfg = PlainCfg
    /\ fin \in {[fn |-> "simplifyByMinimunLength", segments |-> v, min_length |-> d] :
                   v \in SeqsOf(SeqsOf(SimplifyPts, 1, MaxSegmentPoints), 1, 2),
                   d \in SimplifyDists}
    /\ fout = NoOutput

CallSimplify ==
    /\ fin.fn = "simplifyByMinimunLength"
    /\ fout = NoOutput
    /\ \E r \in {SimplifyByMinimunLength(fin.segments, fin.min_length)} :
          fout' = [tag |-> "simplify", threw |-> r.threw,
                   simplified_segments |-> r.segments]
    /\ UNCHANGED <<cfg, fin, computeVars>>

NextSimplify == CallSimplify

SpecSimplify == InitSimplify /\ [][NextSimplify]_vars

\* out holds the vertices of segment at the positions kept, in their order
KeptAt(segment, kept, out) ==
    out = SelectIdx(segment, [i \in 1..Len(segment) |-> i \in kept], 1)

\* C24: of a curve of two vertices or more simplifyByMinimunLength returns
\* a subsequence that keeps the first and the last vertex, in which every
\* interior vertex is more than min_length from the vertex before it, and
\* which is not longer than the curve.
C24_SimplifiedSubsequence ==
    fout.tag = "simplify"
        => /\ ~fout.threw
           /\ Len(fout.simplified_segments) = Len(fin.segments)
           /\ \A k \in 1..Len(fin.segments) :
                 LET segment == fin.segments[k]
                     out == fout.simplified_segments[k]
                 IN  Len(segment) >= 2
                        => /\ \E kept \in SUBSET (1..Len(segment)) :
                                 /\ 1 \in kept /\ Len(segment) \in kept
                                 /\ KeptAt(segment, kept, out)
                           /\ out[1] = segment[1]
                           /\ out[Len(out)] = segment[Len(segment)]
                           /\ \A j \in 2..(Len(out) - 1) :
                                 Norm2(out[j], out[j - 1]) > fin.min_length * fin.min_length
                           /\ Len(out) <= Len(segment)

\* of a closed curve of four vertices one interior vertex was dropped and
\* the other kept; the curve is still closed
C24_Witness ==
    /\ fout.tag = "simplify"
    /\ Len(fin.segments[1]) = 4
    /\ fin.segments[1][1] = fin.segments[1][4]
    /\ fin.min_length > 0
    /\ Len(fout.simplified_segments[1]) = 3
    /\ fout.simplified_segments[1][1] = fout.simplified_segments[1][3]

---------------------------------------------------------------------------
(* compute(), under Spec: the curves that reach the assembly stage         *)

\* C25: every curve on which the assembly stage of compute() takes front()
\* or back() is non-empty: while the bundles are processed the closed and
\* the open curves gathered so far, which combineIntoClosedRegions,
\* mergeCurves and simplifyByMinimunLength get once the input is exhausted,
\* hold no empty curve, and no call ends in the undefined front() or back()
\* of an empty curve.
C25_AssemblyCurvesNonEmpty ==
    /\ pc = "loop" => ~HasEmpty(closed_contours_points \o open_contours_points)
    /\ pc \notin {"crashed", "threw"}

===========================================================================
